---- MODULE Spec2Model ----
(***************************************************************************)
(* Model of the Solana "user-data" PDA program: the Borsh layout of        *)
(* UserData (state.rs), and the two instruction handlers of Processor      *)
(* (processor.rs) acting on fixed-capacity account byte buffers.           *)
(*                                                                         *)
(* Every handler invocation is one atomic action (the runtime serialises   *)
(* instructions on an account).  Byte buffers are sequences of 0..255.     *)
(* The model follows the program's own code: what the handler has written  *)
(* into the account buffer when it returns an error stays in `accounts`.   *)
(***************************************************************************)
EXTENDS Integers, Sequences, FiniteSets, TLC

(* ---------------------------- bounds ----------------------------------- *)
\* successful updates are explored until the stored counter reaches MaxCount
MaxCount == 3
(* ------------------------ program constants ---------------------------- *)
MAX_NAME_LENGTH == 64
MAX_MESSAGE_LENGTH == 256

(* ------------------------------ keys ----------------------------------- *)
\* a Pubkey is a 32-byte array; Key(n) is the key whose bytes are all n
Key(n) == [i \in 1..32 |-> n]

\* the signing identities: O, the owner of the scenarios, and another one, P
O == Key(1)
P == Key(2)
Users == {O, P}
ProgramId == Key(100)
SystemProgram == Key(0)
OtherProgram == Key(101)

\* Pubkey::find_program_address(["user-data", user], program_id): an opaque
\* deterministic, collision-free map from the user key to an address
find_program_address(user) == Key(user[1] + 10)

\* an address that is not derived from any user (an ordinary keypair address)
ExtAddr == Key(50)
\* the account addresses passed to the handlers: O's derived address and the
\* keypair address
Addresses == {find_program_address(O), ExtAddr}

(* ----------------------------- strings --------------------------------- *)
\* strings are sequences of (ASCII) bytes
Rep(b, n) == [i \in 1..n |-> b]
S_alice == <<97, 108, 105, 99, 101>>
S_bob == <<98, 111, 98>>
S_hi == <<104, 105>>
S_hello_again == <<104, 101, 108, 108, 111, 32, 97, 103, 97, 105, 110>>
Names == {S_alice, S_bob, Rep(110, MAX_NAME_LENGTH + 1)}
Messages == {S_hi, S_hello_again, Rep(109, MAX_MESSAGE_LENGTH + 1)}

(* --------------------------- Borsh codec ------------------------------- *)
\* little-endian encoding of n in w bytes (u32: w = 4, u64: w = 8)
RECURSIVE LE(_, _)
LE(w, n) == IF w = 0 THEN <<>> ELSE <<n % 256>> \o LE(w - 1, n \div 256)

RECURSIVE FromLE(_)
FromLE(bs) == IF bs = <<>> THEN 0 ELSE bs[1] + 256 * FromLE(Tail(bs))

\* String::from_utf8 on the inputs of this model (ASCII only)
IsUtf8(bs) == \A i \in 1..Len(bs) : bs[i] < 128


\* a size computation that forgets the two 4-byte length prefixes
get_size_no_prefix(name, message) ==
    1 + 32 + Len(name) + Len(message) + 8

get_size(name, message) ==
    1 + 32 + 4 + Len(name) + 4 + Len(message) + 8


\* an encoder that writes the two strings in the wrong order
serialize_swapped(r) ==
    <<IF r.is_initialized THEN 1 ELSE 0>> \o r.owner
       \o LE(4, Len(r.message)) \o r.message
       \o LE(4, Len(r.name)) \o r.name
       \o LE(8, r.update_count)

\* derived BorshSerialize for UserData: the fields in declaration order
serialize(r) ==
    <<IF r.is_initialized THEN 1 ELSE 0>> \o r.owner
       \o LE(4, Len(r.name)) \o r.name
       \o LE(4, Len(r.message)) \o r.message
       \o LE(8, r.update_count)


\* a write that grows the buffer to hold the bytes, as a write to a Vec would
WriteSlice_growing(buf, bytes) ==
    [ok   |-> TRUE,
     data |-> [i \in 1..(IF Len(bytes) > Len(buf) THEN Len(bytes) ELSE Len(buf)) |->
                  IF i <= Len(bytes) THEN bytes[i] ELSE buf[i]]]

\* io::Write for &mut [u8]: copies what fits, write_all fails on the rest
WriteSlice(buf, bytes) ==
    [ok   |-> Len(bytes) <= Len(buf),
     data |-> [i \in 1..Len(buf) |-> IF i <= Len(bytes) THEN bytes[i] ELSE buf[i]]]

NoRecord ==
    [is_initialized |-> FALSE, owner |-> Key(0), name |-> <<>>,
     message |-> <<>>, update_count |-> 0]

\* derived BorshDeserialize::deserialize for UserData: reads the fields in
\* order from the front of buf; `used` is the number of bytes consumed
deserialize(buf) ==
    LET n       == Len(buf)
        okInit  == n >= 1 /\ buf[1] \in {0, 1}
        okOwner == okInit /\ n >= 33
        okNLen  == okOwner /\ n >= 37
        nlen    == FromLE(SubSeq(buf, 34, 37))
        okName  == okNLen /\ n >= 37 + nlen /\ IsUtf8(SubSeq(buf, 38, 37 + nlen))
        p       == 37 + nlen
        okMLen  == okName /\ n >= p + 4
        mlen    == FromLE(SubSeq(buf, p + 1, p + 4))
        okMsg   == okMLen /\ n >= p + 4 + mlen
                          /\ IsUtf8(SubSeq(buf, p + 5, p + 4 + mlen))
        q       == p + 4 + mlen
        okAll   == okMsg /\ n >= q + 8
    IN  IF okAll
        THEN [ok |-> TRUE, used |-> q + 8,
              rec |-> [is_initialized |-> buf[1] = 1,
                       owner |-> SubSeq(buf, 2, 33),
                       name |-> SubSeq(buf, 38, p),
                       message |-> SubSeq(buf, p + 5, q),
                       update_count |-> FromLE(SubSeq(buf, q + 1, q + 8))]]
        ELSE [ok |-> FALSE, used |-> 0, rec |-> NoRecord]

\* BorshDeserialize::try_from_slice: deserialize, then reject unread bytes
try_from_slice(buf) ==
    LET d == deserialize(buf)
    IN  IF d.ok /\ d.used = Len(buf) THEN d
        ELSE [ok |-> FALSE, used |-> 0, rec |-> NoRecord]

safe_deserialize(data) == try_from_slice(data)

\* UserData::new: "Ok" or the length error
new_check(name, message) ==
    IF Len(name) > MAX_NAME_LENGTH THEN "NameTooLong"
    ELSE IF Len(message) > MAX_MESSAGE_LENGTH THEN "MessageTooLong"
    ELSE "Ok"


\* a constructor that leaves the counter at its zero default
new_zero_count(owner, name, message) ==
    [is_initialized |-> TRUE, owner |-> owner, name |-> name,
     message |-> message, update_count |-> 0]

new(owner, name, message) ==
    [is_initialized |-> TRUE, owner |-> owner, name |-> name,
     message |-> message, update_count |-> 1]

get_owner(r) == r.owner

(* ------------------------------ state ---------------------------------- *)
VARIABLES
    accounts,   \* address -> [data: bytes, owner: program key]
    call,       \* the last handler invocation: instruction, result and the
                \* allocation it asked the system program for
    creates,    \* address -> successful Initialize calls so far (saturates at 2)
    updates,    \* address -> successful UpdateMessage calls since the only Create
    first       \* address -> the Record written by the first successful Create

vars == <<accounts, call, creates, updates, first>>

EmptyAccount == [data |-> <<>>, owner |-> SystemProgram]

\* an account of another program that already exists at the keypair address
ForeignAccount == [data |-> <<0>>, owner |-> OtherProgram]

NoCall ==
    [op |-> "none", result |-> "none", alloc_requested |-> FALSE, alloc_size |-> 0]

Init ==
    /\ accounts = [a \in Addresses |-> IF a = ExtAddr THEN ForeignAccount ELSE EmptyAccount]
    /\ call = NoCall
    /\ creates = [a \in Addresses |-> 0]
    /\ updates = [a \in Addresses |-> 0]
    /\ first = [a \in Addresses |-> NoRecord]

(* ---------------------------- handlers --------------------------------- *)
Outcome(result, acct, req, size, allocated) ==
    [result |-> result, acct |-> acct, alloc_requested |-> req,
     alloc_size |-> size, allocated |-> allocated]


\* process_initialize testing the signer flag before the controlling program
process_initialize_signer_first(acct, addr, user, is_signer, rent_ok, alloc_ok, name, message) ==
    IF ~is_signer
    THEN Outcome("MissingRequiredSignature", acct, FALSE, 0, FALSE)
    ELSE IF acct.owner # ProgramId /\ acct.data # <<>>
    THEN Outcome("IncorrectProgramId", acct, FALSE, 0, FALSE)
    ELSE IF ~rent_ok
    THEN Outcome("InvalidArgument", acct, FALSE, 0, FALSE)
    ELSE
    LET data_size == get_size(name, message)
        empty     == acct.data = <<>>
    IN  IF empty /\ find_program_address(user) # addr
        THEN Outcome("InvalidArgument", acct, FALSE, 0, FALSE)
        ELSE IF empty /\ ~alloc_ok
        THEN Outcome("CreateAccountFailed", acct, TRUE, data_size, FALSE)
        ELSE
        LET created == IF empty
                       THEN [data |-> Rep(0, data_size), owner |-> ProgramId]
                       ELSE acct
            chk     == new_check(name, message)
            w       == WriteSlice(created.data, serialize(new(user, name, message)))
        IN  IF chk # "Ok"
            THEN Outcome(chk, created, empty, IF empty THEN data_size ELSE 0, empty)
            ELSE Outcome(IF w.ok THEN "Ok" ELSE "BorshIoError",
                         [created EXCEPT !.data = w.data],
                         empty, IF empty THEN data_size ELSE 0, empty)


\* process_initialize asking for the allocation whether or not the slot is
\* empty; the system program refuses to create an account that is in use
process_initialize_always_allocates(acct, addr, user, is_signer, rent_ok, alloc_ok, name, message) ==
    IF acct.owner # ProgramId /\ acct.data # <<>>
    THEN Outcome("IncorrectProgramId", acct, FALSE, 0, FALSE)
    ELSE IF ~is_signer
    THEN Outcome("MissingRequiredSignature", acct, FALSE, 0, FALSE)
    ELSE IF ~rent_ok
    THEN Outcome("InvalidArgument", acct, FALSE, 0, FALSE)
    ELSE
    LET data_size == get_size(name, message)
        empty     == acct.data = <<>>
    IN  IF find_program_address(user) # addr
        THEN Outcome("InvalidArgument", acct, FALSE, 0, FALSE)
        ELSE IF ~empty \/ ~alloc_ok
        THEN Outcome("CreateAccountFailed", acct, TRUE, data_size, FALSE)
        ELSE
        LET created == [data |-> Rep(0, data_size), owner |-> ProgramId]
            chk     == new_check(name, message)
            w       == WriteSlice(created.data, serialize(new(user, name, message)))
        IN  IF chk # "Ok"
            THEN Outcome(chk, created, TRUE, data_size, TRUE)
            ELSE Outcome(IF w.ok THEN "Ok" ELSE "BorshIoError",
                         [created EXCEPT !.data = w.data], TRUE, data_size, TRUE)

\* Processor::process_initialize on the account `acct` found at `addr`.
\* rent_ok: the third account is the rent sysvar; alloc_ok: the system
\* program's create_account succeeds (funding, address not in use).
process_initialize(acct, addr, user, is_signer, rent_ok, alloc_ok, name, message) ==
    IF acct.owner # ProgramId /\ acct.data # <<>>
    THEN Outcome("IncorrectProgramId", acct, FALSE, 0, FALSE)
    ELSE IF ~is_signer
    THEN Outcome("MissingRequiredSignature", acct, FALSE, 0, FALSE)
    ELSE IF ~rent_ok
    THEN Outcome("InvalidArgument", acct, FALSE, 0, FALSE)
    ELSE
    LET data_size == get_size(name, message)
        empty     == acct.data = <<>>
    IN  IF empty /\ find_program_address(user) # addr
        THEN Outcome("InvalidArgument", acct, FALSE, 0, FALSE)
        ELSE IF empty /\ ~alloc_ok
        THEN Outcome("CreateAccountFailed", acct, TRUE, data_size, FALSE)
        ELSE
        LET created == IF empty
                       THEN [data |-> Rep(0, data_size), owner |-> ProgramId]
                       ELSE acct
            chk     == new_check(name, message)
            w       == WriteSlice(created.data, serialize(new(user, name, message)))
        IN  IF chk # "Ok"
            THEN Outcome(chk, created, empty, IF empty THEN data_size ELSE 0, empty)
            ELSE Outcome(IF w.ok THEN "Ok" ELSE "BorshIoError",
                         [created EXCEPT !.data = w.data],
                         empty, IF empty THEN data_size ELSE 0, empty)

\* the size an update needs: the stored name with the new message
required_size_stale(user_data, message) ==
    get_size(user_data.name, user_data.message)

required_size(user_data, message) ==
    get_size(user_data.name, message)

\* the gates of Processor::process_update_message, in the order of the
\* code: "Ok" or the error of the first gate that fails
update_gate_swapped(acct, user, is_signer, message) ==
    LET d == safe_deserialize(acct.data)
        user_data == d.rec
    IN  IF ~is_signer THEN "MissingRequiredSignature"
        ELSE IF ~d.ok THEN "DataTypeMismatch"
        ELSE IF ~user_data.is_initialized THEN "NotInitialized"
        ELSE IF Len(message) > MAX_MESSAGE_LENGTH THEN "MessageTooLong"
        ELSE IF get_owner(user_data) # user THEN "NotOwner"
        ELSE IF required_size(user_data, message) > Len(acct.data)
        THEN "AccountDataTooSmall"
        ELSE "Ok"


\* the gates with the capacity test placed before the length test
update_gate_size_first(acct, user, is_signer, message) ==
    LET d == safe_deserialize(acct.data)
        user_data == d.rec
    IN  IF ~is_signer THEN "MissingRequiredSignature"
        ELSE IF ~d.ok THEN "DataTypeMismatch"
        ELSE IF ~user_data.is_initialized THEN "NotInitialized"
        ELSE IF get_owner(user_data) # user THEN "NotOwner"
        ELSE IF required_size(user_data, message) > Len(acct.data)
        THEN "AccountDataTooSmall"
        ELSE IF Len(message) > MAX_MESSAGE_LENGTH THEN "MessageTooLong"
        ELSE "Ok"

update_gate(acct, user, is_signer, message) ==
    LET d == safe_deserialize(acct.data)
        user_data == d.rec
    IN  IF ~is_signer THEN "MissingRequiredSignature"
        ELSE IF ~d.ok THEN "DataTypeMismatch"
        ELSE IF ~user_data.is_initialized THEN "NotInitialized"
        ELSE IF get_owner(user_data) # user THEN "NotOwner"
        ELSE IF Len(message) > MAX_MESSAGE_LENGTH THEN "MessageTooLong"
        ELSE IF required_size(user_data, message) > Len(acct.data)
        THEN "AccountDataTooSmall"
        ELSE "Ok"


\* process_update_message assigning the new message to the wrong field as well
process_update_message_renames(acct, user, is_signer, message) ==
    LET gate == update_gate(acct, user, is_signer, message)
    IN  IF gate # "Ok"
        THEN Outcome(gate, acct, FALSE, 0, FALSE)
        ELSE
        LET user_data == safe_deserialize(acct.data).rec
            updated == [user_data EXCEPT
                          !.name = message,
                          !.message = message,
                          !.update_count = user_data.update_count + 1]
            w == WriteSlice(acct.data, serialize(updated))
        IN  Outcome(IF w.ok THEN "Ok" ELSE "BorshIoError",
                    [acct EXCEPT !.data = w.data], FALSE, 0, FALSE)

\* Processor::process_update_message on the account `acct`.  The u64
\* counter cannot wrap here: UpdateMessage stops at MaxCount.
process_update_message(acct, user, is_signer, message) ==
    LET gate == update_gate(acct, user, is_signer, message)
    IN  IF gate # "Ok"
        THEN Outcome(gate, acct, FALSE, 0, FALSE)
        ELSE
        LET user_data == safe_deserialize(acct.data).rec
            updated == [user_data EXCEPT
                          !.message = message,
                          !.update_count = user_data.update_count + 1]
            w == WriteSlice(acct.data, serialize(updated))
        IN  Outcome(IF w.ok THEN "Ok" ELSE "BorshIoError",
                    [acct EXCEPT !.data = w.data], FALSE, 0, FALSE)

(* ----------------------------- actions --------------------------------- *)
Sat(n) == IF n >= 2 THEN 2 ELSE n

\* AccountDemoInstruction::Initialize { name, message }
Initialize(user, is_signer, addr, rent_ok, alloc_ok, name, message) ==
    \E o \in {process_initialize(accounts[addr], addr, user, is_signer,
                                 rent_ok, alloc_ok, name, message)} :
        /\ accounts' = [accounts EXCEPT ![addr] = o.acct]
        /\ call' = [op |-> "Initialize", result |-> o.result,
                    alloc_requested |-> o.alloc_requested,
                    alloc_size |-> o.alloc_size]
        /\ creates' = [creates EXCEPT ![addr] =
                          IF o.result = "Ok" THEN Sat(@ + 1) ELSE @]
        /\ updates' = [updates EXCEPT ![addr] =
                          IF o.result = "Ok" /\ creates[addr] >= 1 THEN 0 ELSE @]
        /\ first' = [first EXCEPT ![addr] =
                        IF o.result = "Ok" /\ creates[addr] = 0
                        THEN new(user, name, message) ELSE @]

\* AccountDemoInstruction::UpdateMessage { message }
UpdateMessage(user, is_signer, addr, message) ==
    \E o \in {process_update_message(accounts[addr], user, is_signer, message)} :
        /\ o.result = "Ok" =>
              deserialize(accounts[addr].data).rec.update_count < MaxCount
        /\ accounts' = [accounts EXCEPT ![addr] = o.acct]
        /\ call' = [op |-> "UpdateMessage", result |-> o.result,
                    alloc_requested |-> o.alloc_requested,
                    alloc_size |-> o.alloc_size]
        /\ creates' = creates
        /\ updates' = [updates EXCEPT ![addr] =
                          IF o.result = "Ok" /\ creates[addr] = 1 THEN @ + 1 ELSE @]
        /\ first' = first

InitializeStep ==
    \E user \in Users, is_signer \in BOOLEAN, addr \in Addresses,
       rent_ok \in BOOLEAN, alloc_ok \in BOOLEAN, name \in Names, message \in Messages :
        Initialize(user, is_signer, addr, rent_ok, alloc_ok, name, message)

UpdateMessageStep ==
    \E user \in Users, is_signer \in BOOLEAN, addr \in Addresses, message \in Messages :
        UpdateMessage(user, is_signer, addr, message)

Next == InitializeStep \/ UpdateMessageStep

Spec == Init /\ [][Next]_vars

(* ------------------------- reading a slot ------------------------------ *)
UserDataAddr == find_program_address(O)

\* the Record the Codec decodes from the slot at a (safe_deserialize)
Decoded(a) == safe_deserialize(accounts[a].data)

\* the Record found at the front of the slot at a, whatever follows it
Stored(a) == deserialize(accounts[a].data)

\* the slot at a holds a Record: its bytes decode to an initialized Record
HoldsRecord(a) == Decoded(a).ok /\ Decoded(a).rec.is_initialized

(* ------------------------------ claims --------------------------------- *)

\* C1 (as claimed): once a slot holds a Record whose owner is O, no call
\* signed by an identity P # O changes the slot: neither an Initialize nor an
\* UpdateMessage that P signs, whatever its arguments.
C1_OnlyOwnerMutates ==
    \A a \in Addresses, u \in Users :
        (HoldsRecord(a) /\ Decoded(a).rec.owner # u) =>
            /\ \A rent_ok \in BOOLEAN, alloc_ok \in BOOLEAN,
                  name \in Names, message \in Messages :
                 process_initialize(accounts[a], a, u, TRUE, rent_ok, alloc_ok,
                                    name, message).acct = accounts[a]
            /\ \A message \in Messages :
                 process_update_message(accounts[a], u, TRUE, message).acct
                    = accounts[a]

\* C2 (as claimed): in every reachable state the Record held in a slot has
\* the owner and the name written by the first successful Create on that slot.
C2_OwnerNameFixed ==
    \A a \in Addresses :
        (creates[a] >= 1 /\ Stored(a).ok) =>
            /\ Stored(a).rec.owner = first[a].owner
            /\ Stored(a).rec.name = first[a].name

\* C3 (as claimed): a signed Create whose slot address differs from the
\* address derived for the signer fails with InvalidArgument, without
\* allocating or writing, whether the slot is empty or already has content
\* (stated for slots that pass the controlling-program gate).
C3_AddressMismatchRejected ==
    \A a \in Addresses, u \in Users :
        (a # find_program_address(u)
           /\ (accounts[a].data = <<>> \/ accounts[a].owner = ProgramId)) =>
            \A alloc_ok \in BOOLEAN, name \in Names, message \in Messages :
                LET o == process_initialize(accounts[a], a, u, TRUE, TRUE,
                                            alloc_ok, name, message)
                IN  /\ o.result = "InvalidArgument"
                    /\ ~o.alloc_requested
                    /\ o.acct = accounts[a]

\* C4 (as claimed): after every successful Create or UpdateMessage the whole
\* buffer of the slot the call wrote decodes with the Codec's decode, and to
\* the Record the call wrote (the one at the front of the buffer).
C4_WrittenSlotDecodes ==
    [][\A a \in Addresses :
          (call'.result = "Ok" /\ accounts'[a] # accounts[a]) =>
              /\ safe_deserialize(accounts'[a].data).ok
              /\ safe_deserialize(accounts'[a].data).rec
                    = deserialize(accounts'[a].data).rec]_vars

\* C5 (as claimed): a Create or UpdateMessage that returns an error leaves
\* every slot exactly as it was: nothing allocated, no byte overwritten.
C5_ErrorLeavesSlot ==
    [][(call'.result # "Ok") => accounts' = accounts]_vars

\* C6 (as claimed): Scenario B.  On the slot left by Create(O, "alice", "hi")
\* on the empty derived slot, UpdateMessage(O, "hello again") succeeds and the
\* slot then decodes to update_count 2, message "hello again", name "alice".
C6_ScenarioB ==
    (creates[UserDataAddr] = 1 /\ updates[UserDataAddr] = 0
       /\ accounts[UserDataAddr] =
             [data |-> serialize(new(O, S_alice, S_hi)), owner |-> ProgramId]) =>
        LET o == process_update_message(accounts[UserDataAddr], O, TRUE,
                                        S_hello_again)
            d == safe_deserialize(o.acct.data)
        IN  /\ o.result = "Ok"
            /\ d.ok
            /\ d.rec = [is_initialized |-> TRUE, owner |-> O, name |-> S_alice,
                        message |-> S_hello_again, update_count |-> 2]

\* C7 (as claimed): an UpdateMessage whose new message makes
\* size_of(stored name, new message) exceed the slot's capacity fails with
\* AccountDataTooSmall and leaves the slot unchanged.
C7_CapacityCeiling_Original ==
    \A a \in Addresses, u \in Users, is_signer \in BOOLEAN, message \in Messages :
        (HoldsRecord(a)
           /\ get_size(Decoded(a).rec.name, message) > Len(accounts[a].data)) =>
            LET o == process_update_message(accounts[a], u, is_signer, message)
            IN  o.result = "AccountDataTooSmall" /\ o.acct = accounts[a]

\* C7 (amended): an UpdateMessage signed by the owner stored in the slot's
\* Record, with a new message of at most 256 bytes that makes
\* size_of(stored name, new message) exceed the slot's capacity, fails with
\* AccountDataTooSmall and leaves the slot, update_count included, unchanged.
C7_CapacityCeiling ==
    \A a \in Addresses, u \in Users, message \in Messages :
        (HoldsRecord(a) /\ Decoded(a).rec.owner = u
           /\ Len(message) <= MAX_MESSAGE_LENGTH
           /\ get_size(Decoded(a).rec.name, message) > Len(accounts[a].data)) =>
            LET o == process_update_message(accounts[a], u, TRUE, message)
            IN  o.result = "AccountDataTooSmall" /\ o.acct = accounts[a]

\* an UpdateMessage has just failed the capacity gate on a slot that holds a
\* Record too small for "hello again"
C7_Witness ==
    /\ call.op = "UpdateMessage" /\ call.result = "AccountDataTooSmall"
    /\ HoldsRecord(UserDataAddr)
    /\ get_size(Decoded(UserDataAddr).rec.name, S_hello_again)
          > Len(accounts[UserDataAddr].data)

\* C8 (as claimed): after one successful Create and n successful
\* UpdateMessage calls, with any failed calls in between, the update_count
\* stored in the slot is n + 1.
C8_MonotonicCounter ==
    \A a \in Addresses :
        creates[a] = 1 =>
            /\ Stored(a).ok
            /\ Stored(a).rec.update_count = updates[a] + 1

C10_NotOwnerRejected ==
    \A a \in Addresses, u \in Users, message \in Messages :
        (HoldsRecord(a) /\ Decoded(a).rec.owner # u) =>
            LET o == process_update_message(accounts[a], u, TRUE, message)
            IN  o.result = "NotOwner" /\ o.acct = accounts[a]

\* an UpdateMessage has just failed with NotOwner on a slot that still holds
\* an updated Record
C10_Witness ==
    /\ call.op = "UpdateMessage" /\ call.result = "NotOwner"
    /\ HoldsRecord(UserDataAddr)
    /\ Decoded(UserDataAddr).rec.update_count >= 2

C12_NameTooLongBeforeAllocation ==
    [][(call'.op = "Initialize" /\ call'.result = "NameTooLong") =>
          /\ ~call'.alloc_requested
          /\ \A a \in Addresses :
                Len(accounts'[a].data) = Len(accounts[a].data)]_vars

\* C13: no call changes the capacity of a slot that is already allocated,
\* and after every successful call the slot it wrote holds, at its front, a
\* complete Record whose encoded size is at most the slot's capacity.
C13_CapacityFixedAndSufficient ==
    [][\A a \in Addresses :
          /\ accounts[a].data # <<>> =>
                Len(accounts'[a].data) = Len(accounts[a].data)
          /\ (call'.result = "Ok" /\ accounts'[a] # accounts[a]) =>
                LET after == deserialize(accounts'[a].data)
                IN  /\ after.ok
                    /\ get_size(after.rec.name, after.rec.message)
                          <= Len(accounts'[a].data)]_vars

\* a Record shorter than the slot's capacity has been written by a second
\* Create into the slot the first one allocated
C13_Witness ==
    /\ call.op = "Initialize" /\ call.result = "Ok" /\ ~call.alloc_requested
    /\ creates[UserDataAddr] = 2
    /\ Stored(UserDataAddr).ok
    /\ Stored(UserDataAddr).used < Len(accounts[UserDataAddr].data)

\* C14: Scenario A generalised.  With the rent sysvar supplied and the
\* allocator accepting the request, a Create signed by u with a name of at
\* most 64 and a message of at most 256 bytes on the empty slot at u's derived
\* address succeeds, asks for exactly size_of(name, message) bytes, and leaves
\* a slot of that capacity that decodes to
\* {initialized: true, owner: u, name, message, update_count: 1}.
C14_CreateOnEmptySlot ==
    /\ (call.op = "Initialize" /\ call.result = "Ok" /\ call.alloc_requested) =>
          \E a \in Addresses :
              /\ creates[a] = 1 /\ updates[a] = 0
              /\ Len(accounts[a].data) = call.alloc_size
              /\ Decoded(a).ok
              /\ Decoded(a).rec = first[a]
              /\ first[a].is_initialized /\ first[a].update_count = 1
    /\ \A u \in Users, name \in Names, message \in Messages :
        LET a == find_program_address(u)
        IN  (a \in Addresses /\ accounts[a].data = <<>>
               /\ Len(name) <= MAX_NAME_LENGTH
               /\ Len(message) <= MAX_MESSAGE_LENGTH) =>
                LET o == process_initialize(accounts[a], a, u, TRUE, TRUE, TRUE,
                                            name, message)
                    d == safe_deserialize(o.acct.data)
                IN  /\ o.result = "Ok"
                    /\ o.alloc_requested
                    /\ o.alloc_size = 1 + 32 + 4 + Len(name) + 4 + Len(message) + 8
                    /\ Len(o.acct.data) = o.alloc_size
                    /\ o.acct.owner = ProgramId
                    /\ d.ok
                    /\ d.rec = [is_initialized |-> TRUE, owner |-> u, name |-> name,
                                message |-> message, update_count |-> 1]

\* Scenario A has just happened: the Create asked for 56 bytes and the slot
\* decodes to O's Record "alice" / "hi" with update_count 1
C14_Witness ==
    /\ call.op = "Initialize" /\ call.result = "Ok"
    /\ call.alloc_requested /\ call.alloc_size = 56
    /\ creates[UserDataAddr] = 1 /\ updates[UserDataAddr] = 0
    /\ Decoded(UserDataAddr).ok
    /\ Decoded(UserDataAddr).rec =
          [is_initialized |-> TRUE, owner |-> O, name |-> S_alice,
           message |-> S_hi, update_count |-> 1]

\* C15 (as claimed): an UpdateMessage signed by the caller against a slot on
\* which no Create has succeeded, be it empty or allocated and holding only
\* zero bytes, fails with NotInitialized.
C15_MutateBeforeCreate ==
    \A a \in Addresses, u \in Users, message \in Messages :
        (creates[a] = 0
           /\ (accounts[a].data = <<>> \/ accounts[a].owner = ProgramId)
           /\ accounts[a].data = Rep(0, Len(accounts[a].data))) =>
            process_update_message(accounts[a], u, TRUE, message).result
               = "NotInitialized"

(* --------------------- the Codec on its own ---------------------------- *)
\* Records drawn from bounded sets: names and messages that are empty, short,
\* at the length limits and one byte over them
CodecNames == Names \cup {<<>>, Rep(110, MAX_NAME_LENGTH)}
CodecMessages == Messages \cup {<<>>, Rep(109, MAX_MESSAGE_LENGTH)}
CodecRecords ==
    [is_initialized : BOOLEAN, owner : Users, name : CodecNames,
     message : CodecMessages, update_count : 0..MaxCount]

\* `first` holds the Record to encode, the slot is still empty
CodecInit ==
    /\ \E r \in CodecRecords :
          first = [a \in Addresses |-> IF a = UserDataAddr THEN r ELSE NoRecord]
    /\ accounts = [a \in Addresses |-> [data |-> <<>>, owner |-> ProgramId]]
    /\ call = NoCall
    /\ creates = [a \in Addresses |-> 0]
    /\ updates = [a \in Addresses |-> 0]

\* UserData::serialize: the encoding of the Record becomes the slot's bytes
CodecEncode ==
    /\ accounts[UserDataAddr].data = <<>>
    /\ accounts' = [accounts EXCEPT ![UserDataAddr].data = serialize(first[UserDataAddr])]
    /\ UNCHANGED <<call, creates, updates, first>>

CodecNext == CodecEncode

CodecSpec == CodecInit /\ [][CodecNext]_vars

\* C16: size exactness.  The encoding of a Record with any name and message
\* is 1 + 32 + 4 + len(name) + 4 + len(message) + 8 bytes long, which is
\* get_size(name, message), the value Create allocates and UpdateMessage
\* compares with the capacity.
C16_SizeExactness ==
    LET r == first[UserDataAddr]
        data == accounts[UserDataAddr].data
    IN  data # <<>> =>
            /\ Len(data) = 1 + 32 + 4 + Len(r.name) + 4 + Len(r.message) + 8
            /\ Len(data) = get_size(r.name, r.message)
            /\ Len(data) = required_size(r, r.message)

\* a Record with a 65-byte name and a 257-byte message has been encoded
C16_Witness ==
    /\ accounts[UserDataAddr].data # <<>>
    /\ Len(first[UserDataAddr].name) = MAX_NAME_LENGTH + 1
    /\ Len(first[UserDataAddr].message) = MAX_MESSAGE_LENGTH + 1
    /\ Len(accounts[UserDataAddr].data) = 371

\* C17: round trip.  For every Record with a name of at most 64 and a message
\* of at most 256 bytes, decoding its encoding succeeds, consumes all of it
\* and yields the Record.
C17_RoundTrip ==
    LET r == first[UserDataAddr]
        data == accounts[UserDataAddr].data
    IN  (data # <<>> /\ Len(r.name) <= MAX_NAME_LENGTH
           /\ Len(r.message) <= MAX_MESSAGE_LENGTH) =>
            /\ safe_deserialize(data).ok
            /\ safe_deserialize(data).rec = r
            /\ safe_deserialize(data).used = Len(data)

\* a Record at both length limits, with distinct name and message and a
\* non-zero counter, has been encoded
C17_Witness ==
    /\ accounts[UserDataAddr].data # <<>>
    /\ Len(first[UserDataAddr].name) = MAX_NAME_LENGTH
    /\ Len(first[UserDataAddr].message) = MAX_MESSAGE_LENGTH
    /\ first[UserDataAddr].update_count = MaxCount
    /\ first[UserDataAddr].is_initialized

(* ----------------------- claims, continued ----------------------------- *)

C19_CreateFirstGates ==
    \A a \in Addresses, u \in Users, is_signer \in BOOLEAN, rent_ok \in BOOLEAN,
       alloc_ok \in BOOLEAN, name \in Names, message \in Messages :
        LET foreign == accounts[a].data # <<>> /\ accounts[a].owner # ProgramId
            o == process_initialize(accounts[a], a, u, is_signer, rent_ok,
                                    alloc_ok, name, message)
        IN  /\ foreign =>
                  /\ o.result = "IncorrectProgramId"
                  /\ ~o.alloc_requested /\ o.acct = accounts[a]
            /\ (~foreign /\ ~is_signer) =>
                  /\ o.result = "MissingRequiredSignature"
                  /\ ~o.alloc_requested /\ o.acct = accounts[a]
            /\ o.result = "Ok" => is_signer

\* a Create has just been refused with IncorrectProgramId, after an earlier
\* one succeeded on the derived slot
C19_Witness ==
    /\ call.op = "Initialize" /\ call.result = "IncorrectProgramId"
    /\ ~call.alloc_requested
    /\ creates[UserDataAddr] = 1
    /\ accounts[ExtAddr] = ForeignAccount

\* C20: idempotent re-initialization.  A Create on a slot that already has
\* content issues no allocation request; and when a Create succeeds, the
\* same Create applied again to the resulting slot succeeds without an
\* allocation request and leaves the slot, bytes and capacity, as the first
\* application left it.
C20_IdempotentReinitialize ==
    \A a \in Addresses, u \in Users, is_signer \in BOOLEAN, rent_ok \in BOOLEAN,
       alloc_ok \in BOOLEAN, name \in Names, message \in Messages :
        LET once  == process_initialize(accounts[a], a, u, is_signer, rent_ok,
                                        alloc_ok, name, message)
            twice == process_initialize(once.acct, a, u, is_signer, rent_ok,
                                        alloc_ok, name, message)
        IN  /\ accounts[a].data # <<>> => ~once.alloc_requested
            /\ once.result = "Ok" =>
                  /\ twice.result = "Ok"
                  /\ ~twice.alloc_requested
                  /\ twice.acct = once.acct

\* the Create that made the slot has been applied a second time: no
\* allocation was requested and the slot decodes to the first Create's Record
C20_Witness ==
    /\ call.op = "Initialize" /\ call.result = "Ok" /\ ~call.alloc_requested
    /\ creates[UserDataAddr] = 2
    /\ Decoded(UserDataAddr).ok
    /\ Decoded(UserDataAddr).rec = first[UserDataAddr]
====
